---- MODULE Spec2Model ----
(***************************************************************************)
(* The sandwich view of speedscope: the sortable frame table               *)
(* (views/profile-table-view.tsx) and the inverted-caller flamegraph       *)
(* (views/inverted-caller-flamegraph-view.tsx), with the memoized          *)
(* derivations the two views share.                                        *)
(*                                                                         *)
(* Objects that JavaScript compares by reference (Profile, Frame, Map,     *)
(* closure, Flamechart) are records [id, val]: `id` is the object's        *)
(* identity, `val` its immutable content.  === is equality of ids.         *)
(***************************************************************************)
EXTENDS Integers, Sequences, FiniteSets, TLC

\* -------------------------------------------------------------- bounds
\* A profile has at most MaxCells stack entries over all of its samples.
MaxCells == 3
\* A behaviour changes the store at most MaxStoreChanges times.
MaxStoreChanges == 2
\* The inverted-caller view renders successfully at most MaxRenders times.
MaxRenders == 3
\* Sample weights are drawn from 0..MaxWeight.
MaxWeight == 2

\* ------------------------------------------------------------- helpers
RECURSIVE SumSeq(_)
SumSeq(s) == IF s = <<>> THEN 0 ELSE Head(s) + SumSeq(Tail(s))

RECURSIVE Reverse(_)
Reverse(s) == IF s = <<>> THEN <<>> ELSE Append(Reverse(Tail(s)), Head(s))

RECURSIVE Concat(_)
Concat(ss) == IF ss = <<>> THEN <<>> ELSE Head(ss) \o Concat(Tail(ss))

Range(s) == {s[i] : i \in 1..Len(s)}

\* The elements of s, each once, in the order of their first appearance.
RECURSIVE Distinct(_)
Distinct(s) ==
    IF s = <<>> THEN <<>>
    ELSE LET init == Distinct(SubSeq(s, 1, Len(s) - 1))
             last == s[Len(s)]
         IN  IF last \in Range(init) THEN init ELSE Append(init, last)

\* -------------------------------------------------------------- frames
\* A Frame's stable key.  Three code locations are enough to have a caller, a
\* callee and recursion, and names that tie once lower-cased.
FrameKeys == {1, 2, 3}

\* frame.name, as UTF-16 code units: "a", "Ab", "ab".
FrameName(k) == CASE k = 1 -> <<97>> [] k = 2 -> <<65, 98>> [] OTHER -> <<97, 98>>

\* String.prototype.toLowerCase on A..Z.
toLowerCase(name) ==
    [i \in 1..Len(name) |-> IF name[i] >= 65 /\ name[i] <= 90 THEN name[i] + 32 ELSE name[i]]

\* JavaScript's < on strings: lexicographic on code units.
RECURSIVE StringLess(_, _)
StringLess(s, t) ==
    IF t = <<>> THEN FALSE
    ELSE IF s = <<>> THEN TRUE
    ELSE IF Head(s) # Head(t) THEN Head(s) < Head(t)
    ELSE StringLess(Tail(s), Tail(t))

\* ------------------------------------------------------------- profile
\* Total weight of a frame: every sample whose stack holds it, once per sample.
FrameTotalOf(samples, k) ==
    SumSeq([i \in 1..Len(samples) |->
              IF k \in Range(samples[i].stack) THEN samples[i].weight ELSE 0])

\* Self weight of a frame: every sample whose leaf it is.
FrameSelfOf(samples, k) ==
    SumSeq([i \in 1..Len(samples) |->
              IF samples[i].stack # <<>> /\ samples[i].stack[Len(samples[i].stack)] = k
              THEN samples[i].weight ELSE 0])

\* A Profile built from weighted call-stack samples (root first).
Profile(samples) ==
    [samples     |-> samples,
     frames      |-> Distinct(Concat([i \in 1..Len(samples) |-> samples[i].stack])),
     selfWeight  |-> [k \in FrameKeys |-> FrameSelfOf(samples, k)],
     totalWeight |-> [k \in FrameKeys |-> FrameTotalOf(samples, k)]]

getTotalNonIdleWeight(p) == SumSeq([i \in 1..Len(p.samples) |-> p.samples[i].weight])

\* profile.forEachFrame: every distinct frame once, in a stable order.
forEachFrame(p) == p.frames

\* A stack with every frame that is already on it dropped.
FlattenStack(stack) == Distinct(stack)

\* profile.getProfileWithRecursionFlattened()
ProfileWithRecursionFlattened(p) ==
    [samples     |-> [i \in 1..Len(p.samples) |->
                        [stack  |-> FlattenStack(p.samples[i].stack),
                         weight |-> p.samples[i].weight]],
     frames      |-> p.frames,
     selfWeight  |-> p.selfWeight,
     totalWeight |-> p.totalWeight]

\* The inverted stacks one sample contributes: one per occurrence of the frame.
InvertedStacksOf(sample, k) ==
    LET occ == [i \in 1..Len(sample.stack) |->
                  IF sample.stack[i] = k
                  THEN <<[stack  |-> Reverse(SubSeq(sample.stack, 1, i)),
                          weight |-> sample.weight]>>
                  ELSE <<>>]
    IN  Concat(occ)

\* profile.getInvertedProfileForCallersOf(frame)
InvertedProfileForCallersOf(p, k) ==
    Profile(Concat([i \in 1..Len(p.samples) |-> InvertedStacksOf(p.samples[i], k)]))

\* Sum of the total weights of the root nodes of the call tree.
RootTotalWeight(p) ==
    SumSeq([i \in 1..Len(p.samples) |->
              IF p.samples[i].stack # <<>> THEN p.samples[i].weight ELSE 0])

\* Every profile within the bounds: samples in order, stacks root first.
Stacks(n) == [1..n -> FrameKeys]

RECURSIVE SampleLists(_)
SampleLists(cells) ==
    {<<>>} \cup
    UNION {{<<[stack |-> st, weight |-> w]>> \o rest :
              st \in Stacks(n), w \in 0..MaxWeight, rest \in SampleLists(cells - n)} :
           n \in 1..cells}

\* Section 8's scenarios on three frames: a stack a -> Ab -> Ab -> ab that
\* recurses, and two stacks a -> ab, Ab -> ab that share their leaf.
ScenarioSamples ==
    {<<[stack |-> <<1, 2, 2, 3>>, weight |-> 2]>>,
     <<[stack |-> <<1, 3>>, weight |-> 1], [stack |-> <<2, 3>>, weight |-> 2]>>}

\* ---------------------------------------------------- objects, identity
NewObject(id, val) == [id |-> id, val |-> val]

\* A primitive (boolean) as a field of an input object: === compares values.
Primitive(v) == [id |-> v, val |-> v]

\* The Frame object with key k that the profile object `profile` owns.
FrameOf(profile, k) == [id |-> <<profile.id, k>>, val |-> k]

\* last == null is <<>>; otherwise <<[args, result]>>.
NoCache == <<>>

\* ------------------------------------------- memoized derivation cache
\* lib/utils: every field of a is reference-equal to the same field of b.
objectsHaveShallowEquality(a, b) ==
    /\ DOMAIN a = DOMAIN b
    /\ \A f \in DOMAIN a : a[f].id = b[f].id

\* One call of a function wrapped by memoizeByShallowEquality, `last` being the
\* wrapper's slot and `fresh` the object the wrapped function would build.
memoizeByShallowEquality(last, args, fresh) ==
    IF last # NoCache /\ objectsHaveShallowEquality(last[1].args, args)
    THEN [last |-> last, result |-> last[1].result, invoked |-> FALSE]
    ELSE [last |-> <<[args |-> args, result |-> fresh]>>, result |-> fresh, invoked |-> TRUE]

\* One call of a function wrapped by memoizeByReference (a one-argument getter).
memoizeByReference(last, arg, fresh) ==
    IF last # NoCache /\ last[1].args.id = arg.id
    THEN [last |-> last, result |-> last[1].result, invoked |-> FALSE]
    ELSE [last |-> <<[args |-> arg, result |-> fresh]>>, result |-> fresh, invoked |-> TRUE]

Allocated(call) == IF call.invoked THEN 1 ELSE 0

\* ------------------------------------------------------- color buckets
\* The size of the palette the buckets index.
PaletteSize == 8

\* The bucket of a frame: a hash of its stable key.
ColorBucketOfKey(k) == (5 * k) % PaletteSize

\* FrameToColorBucket hashing the memory identity of the profile's Frame objects
\* instead of their keys.
FrameToColorBucketByIdentity(profile) ==
    [k \in Range(forEachFrame(profile.val)) |-> (5 * (profile.id + k)) % PaletteSize]

\* store/getters getFrameToColorBucket(profile): frame.key -> bucket.
FrameToColorBucket(profile) ==
    [k \in Range(forEachFrame(profile.val)) |-> ColorBucketOfKey(k)]

\* store/getters getProfileWithRecursionFlattened, memoized by reference.
getProfileWithRecursionFlattened(last, profile, id) ==
    memoizeByReference(last, profile, NewObject(id, ProfileWithRecursionFlattened(profile.val)))

\* store/getters getFrameToColorBucket, memoized by reference.
getFrameToColorBucket(last, profile, id) ==
    memoizeByReference(last, profile, NewObject(id, FrameToColorBucket(profile)))

\* store/getters createGetColorBucketForFrame: a closure over the map, memoized
\* by reference; the closure looks the frame's key up in the map.
createGetColorBucketForFrame(last, frameToColorBucket, id) ==
    memoizeByReference(last, frameToColorBucket, NewObject(id, frameToColorBucket.val))

\* ----------------------------------- inverted-caller-flamegraph-view.tsx
\* InvertedCallerProfile flattening the profile before it inverts it, whatever
\* flattenRecursion is.
InvertedCallerProfileFlattenFirst(args) ==
    InvertedProfileForCallersOf(ProfileWithRecursionFlattened(args.profile.val),
                                args.frame.val)

\* The function getInvertedCallerProfile wraps.
InvertedCallerProfile(args) ==
    LET p == InvertedProfileForCallersOf(args.profile.val, args.frame.val)
    IN  IF args.flattenRecursion.val THEN ProfileWithRecursionFlattened(p) ELSE p

\* getInvertedCallerProfile left unwrapped: every call invokes the function.
getInvertedCallerProfileUnwrapped(last, args, id) ==
    [last    |-> <<[args |-> args, result |-> NewObject(id, InvertedCallerProfile(args))]>>,
     result  |-> NewObject(id, InvertedCallerProfile(args)),
     invoked |-> TRUE]

\* getInvertedCallerProfile memoized on the profile alone.
getInvertedCallerProfileByProfile(last, args, id) ==
    IF last # NoCache /\ last[1].args.profile.id = args.profile.id
    THEN [last |-> last, result |-> last[1].result, invoked |-> FALSE]
    ELSE [last    |-> <<[args |-> args, result |-> NewObject(id, InvertedCallerProfile(args))]>>,
          result  |-> NewObject(id, InvertedCallerProfile(args)),
          invoked |-> TRUE]

getInvertedCallerProfile(last, args, id) ==
    memoizeByShallowEquality(last, args, NewObject(id, InvertedCallerProfile(args)))

\* new Flamechart({...}): the callbacks it is built from, bound to the inverted
\* profile and to the color-bucket closure.
Flamechart(args) ==
    [getTotalWeight         |-> getTotalNonIdleWeight(args.invertedCallerProfile.val),
     forEachCall            |-> args.invertedCallerProfile.id,
     getColorBucketForFrame |-> args.getColorBucketForFrame.id]

getInvertedCallerFlamegraph(last, args, id) ==
    memoizeByShallowEquality(last, args, NewObject(id, Flamechart(args)))

\* -------------------------------------------------------- sort methods
SortFields == {"SYMBOL_NAME", "SELF", "TOTAL"}
SortDirections == {"ASCENDING", "DESCENDING"}
SortMethods == [field : SortFields, direction : SortDirections]

\* A JavaScript value that carries its type: a number, or a string as the
\* sequence of its code units.
Number(n) == [type |-> "number", value |-> n]

String(u) == [type |-> "string", value |-> u]

\* JavaScript's a < b on two numbers or on two strings.
LessThan(a, b) ==
    IF a.type = "number" THEN a.value < b.value ELSE StringLess(a.value, b.value)

\* lib/utils sortBy: Array.prototype.sort under the comparator of the keys, which
\* is stable.  An element's place: after every smaller key and after the equal
\* keys that came before it.  key maps each element to its key.
sortBy(ts, key) ==
    LET n == Len(ts)
        less(i, j) == LessThan(key[ts[i]], key[ts[j]])
        same(i, j) == ~less(i, j) /\ ~less(j, i)
        place(i) == 1 + Cardinality({j \in 1..n : less(j, i)})
                      + Cardinality({j \in 1..(i - 1) : same(j, i)})
    IN  [r \in 1..n |-> ts[CHOOSE i \in 1..n : place(i) = r]]

\* ---------------------------------------------- profile-table-view.tsx
\* frameList sorting a descending list stably (equal keys keep their order)
\* instead of reversing the ascending list.
frameListStableDescending(p, sortMethod) ==
    LET list == forEachFrame(p)
        key ==
            CASE sortMethod.field = "SYMBOL_NAME" ->
                   [k \in Range(list) |-> String(toLowerCase(FrameName(k)))]
              [] sortMethod.field = "SELF" ->
                   [k \in Range(list) |-> Number(p.selfWeight[k])]
              [] sortMethod.field = "TOTAL" ->
                   [k \in Range(list) |-> Number(p.totalWeight[k])]
    IN  IF sortMethod.direction = "DESCENDING"
        THEN Reverse(sortBy(Reverse(list), key))
        ELSE sortBy(list, key)

\* ProfileTableView's frameList.
frameList(p, sortMethod) ==
    LET list == forEachFrame(p)
        sorted ==
            CASE sortMethod.field = "SYMBOL_NAME" ->
                   sortBy(list, [k \in Range(list) |-> String(toLowerCase(FrameName(k)))])
              [] sortMethod.field = "SELF" ->
                   sortBy(list, [k \in Range(list) |-> Number(p.selfWeight[k])])
              [] sortMethod.field = "TOTAL" ->
                   sortBy(list, [k \in Range(list) |-> Number(p.totalWeight[k])])
    IN  IF sortMethod.direction = "DESCENDING" THEN Reverse(sorted) ELSE sorted

\* JavaScript's x / y on non-negative numbers: 0/0 is NaN, x/0 is Infinity, and a
\* finite quotient is kept as the fraction num/den.
Divide(x, y) ==
    IF y = 0
    THEN [kind |-> IF x = 0 THEN "NaN" ELSE "Infinity", num |-> x, den |-> y]
    ELSE [kind |-> "finite", num |-> x, den |-> y]

\* HBarDisplay: the width it is styled with, `${perc}%`.
HBarDisplay(perc) == perc

\* ProfileTableRowView: one row of the table.
ProfileTableRowView(k, index, profile, selectedFrame) ==
    LET totalWeight == profile.val.totalWeight[k]
        selfWeight  == profile.val.selfWeight[k]
        totalPerc   == Divide(100 * totalWeight, getTotalNonIdleWeight(profile.val))
        selfPerc    == Divide(100 * selfWeight, getTotalNonIdleWeight(profile.val))
    IN  [frame     |-> k,
         index     |-> index,
         selected  |-> selectedFrame # <<>> /\ FrameOf(profile, k).id = selectedFrame[1].id,
         totalHBar |-> HBarDisplay(totalPerc),
         selfHBar  |-> HBarDisplay(selfPerc)]

\* ProfileTableView: what one render of the table shows.
ProfileTableView(profile, selectedFrame, sortMethod, frameToColorBucket) ==
    LET list == frameList(profile.val, sortMethod)
    IN  [status             |-> "ok",
         sortMethod         |-> sortMethod,
         frameList          |-> list,
         rows               |-> [i \in 1..Len(list) |->
                                   ProfileTableRowView(list[i], i - 1, profile, selectedFrame)],
         frameToColorBucket |-> <<frameToColorBucket>>]

\* A view that has not rendered, or whose render threw `status`.
NoView(status) ==
    [status |-> status, sortMethod |-> <<>>, frameList |-> <<>>, rows |-> <<>>,
     frameToColorBucket |-> <<>>]

\* onSortClick with the SELF case's break missing: it falls through to TOTAL.
onSortClickFallThrough(sortMethod, field) ==
    IF sortMethod.field = field
    THEN <<[field     |-> field,
            direction |-> IF sortMethod.direction = "ASCENDING"
                          THEN "DESCENDING" ELSE "ASCENDING"]>>
    ELSE CASE field = "SYMBOL_NAME" -> <<[field |-> field, direction |-> "ASCENDING"]>>
           [] field = "SELF"        -> <<[field |-> field, direction |-> "DESCENDING"],
                                         [field |-> field, direction |-> "DESCENDING"]>>
           [] field = "TOTAL"       -> <<[field |-> field, direction |-> "DESCENDING"]>>

\* ProfileTableView.onSortClick: the sort methods it hands to setSortMethod, in
\* order, `sortMethod` being the one of the render the handler closes over.
onSortClick(sortMethod, field) ==
    IF sortMethod.field = field
    THEN <<[field     |-> field,
            direction |-> IF sortMethod.direction = "ASCENDING"
                          THEN "DESCENDING" ELSE "ASCENDING"]>>
    ELSE CASE field = "SYMBOL_NAME" -> <<[field |-> field, direction |-> "ASCENDING"]>>
           [] field = "SELF"        -> <<[field |-> field, direction |-> "DESCENDING"]>>
           [] field = "TOTAL"       -> <<[field |-> field, direction |-> "DESCENDING"]>>

\* The last n elements of s.
LastN(s, n) == IF Len(s) > n THEN SubSeq(s, Len(s) - n + 1, Len(s)) ELSE s

\* ---------------------------------------------------------------- state
VARIABLES
    importedSamples,   \* the samples the loaded profile is built from
    profile,           \* activeProfileState.profile: <<>> (null) or <<Profile>>
    callerCallee,      \* sandwichViewState.callerCallee: <<>> or <<[selectedFrame]>>
    flattenRecursion,  \* state.flattenRecursion
    glCanvas,          \* state.glCanvas is set
    tableSortMethod,   \* state.tableSortMethod
    storeChanges,      \* how many times the store changed
    nextId,            \* the identity of the next object constructed
    memo,              \* the slot of each memoized derivation
    renderLog,         \* the successful renders of the inverted-caller view
    invertedView,      \* the inverted-caller view's last render
    tableView,         \* the table's last render
    clickLog           \* the last sort-header clicks

storeVars == <<importedSamples, profile, callerCallee, flattenRecursion, glCanvas,
               tableSortMethod, storeChanges>>
vars == <<importedSamples, profile, callerCallee, flattenRecursion, glCanvas,
          tableSortMethod, storeChanges, nextId, memo, renderLog, invertedView,
          tableView, clickLog>>

NoMemo ==
    [profileWithRecursionFlattened |-> NoCache,
     frameToColorBucket            |-> NoCache,
     getColorBucketForFrame        |-> NoCache,
     invertedCallerProfile         |-> NoCache,
     invertedCallerFlamegraph      |-> NoCache]

NoInvertedView == [status |-> "unrendered", flamechart |-> <<>>]

\* The frames a table row can select.
Selections(p) ==
    IF p = <<>> THEN {<<>>}
    ELSE {<<>>} \cup {<<[selectedFrame |-> FrameOf(p[1], k)]>> : k \in Range(p[1].val.frames)}

InitViews ==
    /\ storeChanges = 0
    /\ nextId = 2
    /\ memo = NoMemo
    /\ renderLog = <<>>
    /\ invertedView = NoInvertedView
    /\ tableView = NoView("unrendered")
    /\ clickLog = <<>>

\* A scenario profile, loaded or not, in any state of the sandwich view.
Init ==
    /\ importedSamples \in ScenarioSamples
    /\ profile \in {<<>>, <<NewObject(1, Profile(importedSamples))>>}
    /\ callerCallee \in Selections(profile)
    /\ flattenRecursion \in BOOLEAN
    /\ glCanvas \in BOOLEAN
    /\ tableSortMethod = [field |-> "SELF", direction |-> "DESCENDING"]
    /\ InitViews

\* ---------------------------------------------------------- the store
\* A profile is loaded: a new Profile object, and no frame selected in it.
LoadProfile ==
    /\ storeChanges < MaxStoreChanges
    /\ profile' = <<NewObject(nextId, Profile(importedSamples))>>
    /\ nextId' = nextId + 1
    /\ callerCallee' = <<>>
    /\ storeChanges' = storeChanges + 1
    /\ UNCHANGED <<importedSamples, flattenRecursion, glCanvas, tableSortMethod, memo,
                   renderLog, invertedView, tableView, clickLog>>

\* The GL canvas is mounted or unmounted.
SetGLCanvas ==
    /\ storeChanges < MaxStoreChanges
    /\ glCanvas' = ~glCanvas
    /\ storeChanges' = storeChanges + 1
    /\ UNCHANGED <<importedSamples, profile, callerCallee, flattenRecursion,
                   tableSortMethod, nextId, memo, renderLog, invertedView, tableView,
                   clickLog>>

SetFlattenRecursion ==
    /\ storeChanges < MaxStoreChanges
    /\ flattenRecursion' = ~flattenRecursion
    /\ storeChanges' = storeChanges + 1
    /\ UNCHANGED <<importedSamples, profile, callerCallee, glCanvas, tableSortMethod,
                   nextId, memo, renderLog, invertedView, tableView, clickLog>>

\* setSelectedFrame: a table row is clicked, or the selection is cleared.
SetSelectedFrame ==
    /\ storeChanges < MaxStoreChanges
    /\ \E sel \in Selections(profile) :
         /\ sel # callerCallee
         /\ callerCallee' = sel
    /\ storeChanges' = storeChanges + 1
    /\ UNCHANGED <<importedSamples, profile, flattenRecursion, glCanvas, tableSortMethod,
                   nextId, memo, renderLog, invertedView, tableView, clickLog>>

\* ------------------------------------------- the inverted-caller view
\* InvertedCallerFlamegraph handing getInvertedCallerProfile the store's profile
\* instead of the flattened one.
InvertedCallerFlamegraphOfStoreProfile(prof, selectedFrame, flatten, m, id) ==
    LET flattened ==
            IF flatten
            THEN getProfileWithRecursionFlattened(m.profileWithRecursionFlattened, prof, id)
            ELSE [last |-> m.profileWithRecursionFlattened, result |-> prof, invoked |-> FALSE]
        id1 == id + Allocated(flattened)
        buckets == getFrameToColorBucket(m.frameToColorBucket, flattened.result, id1)
        id2 == id1 + Allocated(buckets)
        getBucket == createGetColorBucketForFrame(m.getColorBucketForFrame, buckets.result, id2)
        id3 == id2 + Allocated(getBucket)
        profileArgs == [profile          |-> prof,
                        frame            |-> selectedFrame,
                        flattenRecursion |-> Primitive(flatten)]
        inverted == getInvertedCallerProfile(m.invertedCallerProfile, profileArgs, id3)
        id4 == id3 + Allocated(inverted)
        flamegraphArgs == [invertedCallerProfile  |-> inverted.result,
                           getColorBucketForFrame |-> getBucket.result]
        flamegraph == getInvertedCallerFlamegraph(m.invertedCallerFlamegraph, flamegraphArgs, id4)
    IN  [memo   |-> [profileWithRecursionFlattened |-> flattened.last,
                     frameToColorBucket            |-> buckets.last,
                     getColorBucketForFrame        |-> getBucket.last,
                     invertedCallerProfile         |-> inverted.last,
                     invertedCallerFlamegraph      |-> flamegraph.last],
         nextId |-> id4 + Allocated(flamegraph),
         entry  |-> [profile               |-> prof,
                     frame                 |-> selectedFrame,
                     flattenRecursion      |-> flatten,
                     frameToColorBucket    |-> buckets.result,
                     profileArgs           |-> profileArgs,
                     profileInvoked        |-> inverted.invoked,
                     invertedCallerProfile |-> inverted.result,
                     flamegraphArgs        |-> flamegraphArgs,
                     flamegraphInvoked     |-> flamegraph.invoked,
                     flamechart            |-> flamegraph.result]]

\* The body of InvertedCallerFlamegraphView once its context is there: the
\* derivations in the order the code calls them, each taking the next identity
\* if it constructs an object.
InvertedCallerFlamegraph(prof, selectedFrame, flatten, m, id) ==
    LET flattened ==
            IF flatten
            THEN getProfileWithRecursionFlattened(m.profileWithRecursionFlattened, prof, id)
            ELSE [last |-> m.profileWithRecursionFlattened, result |-> prof, invoked |-> FALSE]
        id1 == id + Allocated(flattened)
        buckets == getFrameToColorBucket(m.frameToColorBucket, flattened.result, id1)
        id2 == id1 + Allocated(buckets)
        getBucket == createGetColorBucketForFrame(m.getColorBucketForFrame, buckets.result, id2)
        id3 == id2 + Allocated(getBucket)
        profileArgs == [profile          |-> flattened.result,
                        frame            |-> selectedFrame,
                        flattenRecursion |-> Primitive(flatten)]
        inverted == getInvertedCallerProfile(m.invertedCallerProfile, profileArgs, id3)
        id4 == id3 + Allocated(inverted)
        flamegraphArgs == [invertedCallerProfile  |-> inverted.result,
                           getColorBucketForFrame |-> getBucket.result]
        flamegraph == getInvertedCallerFlamegraph(m.invertedCallerFlamegraph, flamegraphArgs, id4)
    IN  [memo   |-> [profileWithRecursionFlattened |-> flattened.last,
                     frameToColorBucket            |-> buckets.last,
                     getColorBucketForFrame        |-> getBucket.last,
                     invertedCallerProfile         |-> inverted.last,
                     invertedCallerFlamegraph      |-> flamegraph.last],
         nextId |-> id4 + Allocated(flamegraph),
         entry  |-> [profile               |-> prof,
                     frame                 |-> selectedFrame,
                     flattenRecursion      |-> flatten,
                     frameToColorBucket    |-> buckets.result,
                     profileArgs           |-> profileArgs,
                     profileInvoked        |-> inverted.invoked,
                     invertedCallerProfile |-> inverted.result,
                     flamegraphArgs        |-> flamegraphArgs,
                     flamegraphInvoked     |-> flamegraph.invoked,
                     flamechart            |-> flamegraph.result]]

\* What the view throws for, if anything.
MissingContext ==
    IF profile = <<>> THEN "profile missing"
    ELSE IF ~glCanvas THEN "glCanvas missing"
    ELSE IF callerCallee = <<>> THEN "callerCallee missing"
    ELSE "none"

\* InvertedCallerFlamegraphView taking the profile's first frame when no frame is
\* selected, instead of throwing.
InvertedCallerFlamegraphViewDefaultFrame ==
    /\ Len(renderLog) < MaxRenders
    /\ IF profile = <<>> \/ ~glCanvas
          \/ (callerCallee = <<>> /\ forEachFrame(profile[1].val) = <<>>)
       THEN /\ invertedView' = [status |-> MissingContext, flamechart |-> <<>>]
            /\ invertedView' # invertedView
            /\ UNCHANGED <<nextId, memo, renderLog>>
       ELSE LET frame == IF callerCallee # <<>> THEN callerCallee[1].selectedFrame
                         ELSE FrameOf(profile[1], forEachFrame(profile[1].val)[1])
                r == InvertedCallerFlamegraph(profile[1], frame, flattenRecursion, memo,
                                              nextId)
            IN  /\ memo' = r.memo
                /\ nextId' = r.nextId
                /\ renderLog' = Append(renderLog, r.entry)
                /\ invertedView' = [status |-> "ok", flamechart |-> <<r.entry.flamechart>>]
    /\ UNCHANGED <<storeVars, tableView, clickLog>>

\* One render of InvertedCallerFlamegraphView.
InvertedCallerFlamegraphView ==
    /\ Len(renderLog) < MaxRenders
    /\ IF MissingContext # "none"
       THEN /\ invertedView' = [status |-> MissingContext, flamechart |-> <<>>]
            /\ invertedView' # invertedView
            /\ UNCHANGED <<nextId, memo, renderLog>>
       ELSE LET r == InvertedCallerFlamegraph(profile[1], callerCallee[1].selectedFrame,
                                              flattenRecursion, memo, nextId)
            IN  /\ memo' = r.memo
                /\ nextId' = r.nextId
                /\ renderLog' = Append(renderLog, r.entry)
                /\ invertedView' = [status |-> "ok", flamechart |-> <<r.entry.flamechart>>]
    /\ UNCHANGED <<storeVars, tableView, clickLog>>

\* ------------------------------------------------------------ the table
\* ProfileTableViewContainer with the sort method the store holds after the
\* step: the color buckets of the unflattened profile, then the table.
RenderTable(sortMethod) ==
    IF profile = <<>>
    THEN /\ tableView' = NoView("profile missing")
         /\ UNCHANGED <<nextId, memo>>
    ELSE LET selectedFrame ==
                 IF callerCallee # <<>> THEN <<callerCallee[1].selectedFrame>> ELSE <<>>
             buckets == getFrameToColorBucket(memo.frameToColorBucket, profile[1], nextId)
         IN  /\ memo' = [memo EXCEPT !.frameToColorBucket = buckets.last]
             /\ nextId' = nextId + Allocated(buckets)
             /\ tableView' = ProfileTableView(profile[1], selectedFrame, sortMethod,
                                              buckets.result)

\* One render of ProfileTableViewContainer.
ProfileTableViewContainer ==
    /\ RenderTable(tableSortMethod)
    /\ <<tableView, memo>>' # <<tableView, memo>>
    /\ UNCHANGED <<storeVars, renderLog, invertedView, clickLog>>

\* A click on a sort header: onSortClick with the sort method of the render on
\* screen, setSortMethod storing what it is handed, and the table rendering again
\* with the stored sort method (the store notifies the container before the next
\* event is handled).  clickLog keeps the last two clicks.
SortClick(field) ==
    /\ tableView.status = "ok"
    /\ LET dispatched == onSortClick(tableView.sortMethod, field)
           stored == dispatched[Len(dispatched)]
       IN  /\ tableSortMethod' = stored
           /\ RenderTable(stored)
           /\ clickLog' = LastN(Append(clickLog,
                                       [field          |-> field,
                                        sortMethod     |-> tableView.sortMethod,
                                        setSortMethod  |-> dispatched,
                                        frameList      |-> tableView.frameList]),
                                2)
    /\ UNCHANGED <<importedSamples, profile, callerCallee, flattenRecursion, glCanvas,
                   storeChanges, renderLog, invertedView>>

onTotalClick == SortClick("TOTAL")
onSelfClick == SortClick("SELF")
onSymbolNameClick == SortClick("SYMBOL_NAME")

\* ---------------------------------------------------- specifications
Next ==
    \/ LoadProfile
    \/ SetGLCanvas
    \/ SetFlattenRecursion
    \/ SetSelectedFrame
    \/ InvertedCallerFlamegraphView
    \/ ProfileTableViewContainer

Spec == Init /\ [][Next]_vars

\* Every profile within the bounds, loaded, under any sort method.
InitTable ==
    /\ importedSamples \in SampleLists(MaxCells)
    /\ profile = <<NewObject(1, Profile(importedSamples))>>
    /\ callerCallee = <<>>
    /\ flattenRecursion = FALSE
    /\ glCanvas = TRUE
    /\ tableSortMethod \in SortMethods
    /\ InitViews

NextTable ==
    \/ ProfileTableViewContainer
    \/ onTotalClick
    \/ onSelfClick
    \/ onSymbolNameClick

SpecTable == InitTable /\ [][NextTable]_vars

\* Every profile within the bounds, loaded, a frame of it selected.
InitInverted ==
    /\ importedSamples \in SampleLists(MaxCells)
    /\ profile = <<NewObject(1, Profile(importedSamples))>>
    /\ callerCallee \in Selections(profile) \ {<<>>}
    /\ flattenRecursion \in BOOLEAN
    /\ glCanvas = TRUE
    /\ tableSortMethod = [field |-> "SELF", direction |-> "DESCENDING"]
    /\ InitViews

NextInverted == InvertedCallerFlamegraphView

SpecInverted == InitInverted /\ [][NextInverted]_vars

\* ---------------------------------------------------------------- claims
\* Every field of b is the very object (or primitive) that a holds.
FieldIdentical(a, b) == \A f \in DOMAIN a : a[f].id = b[f].id

\* Every field of b has the content of a's field.
StructurallyEqual(a, b) == \A f \in DOMAIN a : a[f].val = b[f].val

LastRender == renderLog[Len(renderLog)]

\* C1: of two consecutive calls of getInvertedCallerProfile, and of
\* getInvertedCallerFlamegraph, the second does not invoke the wrapped function
\* and returns the first's result when its input is field-identical to the first's,
\* and invokes it again, returning a new object, when its input has the same
\* content in newly constructed objects; the very first call invokes it.
C1_MemoizedByShallowEquality ==
    /\ renderLog # <<>> => renderLog[1].profileInvoked /\ renderLog[1].flamegraphInvoked
    /\ \A i \in 1..(Len(renderLog) - 1) :
         LET a == renderLog[i]
             b == renderLog[i + 1]
         IN  /\ FieldIdentical(a.profileArgs, b.profileArgs)
                  => ~b.profileInvoked
                     /\ b.invertedCallerProfile.id = a.invertedCallerProfile.id
             /\ FieldIdentical(a.flamegraphArgs, b.flamegraphArgs)
                  => ~b.flamegraphInvoked /\ b.flamechart.id = a.flamechart.id
             /\ StructurallyEqual(a.profileArgs, b.profileArgs)
                /\ ~FieldIdentical(a.profileArgs, b.profileArgs)
                  => b.profileInvoked
                     /\ b.invertedCallerProfile.id # a.invertedCallerProfile.id
             /\ StructurallyEqual(a.flamegraphArgs, b.flamegraphArgs)
                /\ ~FieldIdentical(a.flamegraphArgs, b.flamegraphArgs)
                  => b.flamegraphInvoked /\ b.flamechart.id # a.flamechart.id

\* C1's case: three renders, the second with the first's very input, the third
\* with a newly loaded profile of the same content.
C1_Witness ==
    /\ Len(renderLog) = 3
    /\ FieldIdentical(renderLog[1].profileArgs, renderLog[2].profileArgs)
    /\ FieldIdentical(renderLog[1].flamegraphArgs, renderLog[2].flamegraphArgs)
    /\ StructurallyEqual(renderLog[2].profileArgs, renderLog[3].profileArgs)
    /\ ~FieldIdentical(renderLog[2].profileArgs, renderLog[3].profileArgs)
    /\ StructurallyEqual(renderLog[2].flamegraphArgs, renderLog[3].flamegraphArgs)

\* What getInvertedCallerProfile's wrapped function is to return for an input.
ExpectedInvertedCallerProfile(args) ==
    IF args.flattenRecursion.val
    THEN ProfileWithRecursionFlattened(
             InvertedProfileForCallersOf(args.profile.val, args.frame.val))
    ELSE InvertedProfileForCallersOf(args.profile.val, args.frame.val)

\* C2: a memoized derivation keeps one input/output pair, the latest: after a
\* call the slot holds that call's input and the result computed for it, and of
\* three consecutive calls with inputs A, B, A (B not field-identical to A) the
\* second and the third invoke the wrapped function, the third returning a new
\* object and not the first's result; the three are three invocations when the
\* first is the first call ever.
C2_SingleMostRecentPair ==
    /\ renderLog # <<>> =>
         /\ memo.invertedCallerProfile # NoCache
         /\ FieldIdentical(memo.invertedCallerProfile[1].args, LastRender.profileArgs)
         /\ memo.invertedCallerProfile[1].result = LastRender.invertedCallerProfile
         /\ LastRender.invertedCallerProfile.val
              = ExpectedInvertedCallerProfile(LastRender.profileArgs)
         /\ memo.invertedCallerFlamegraph # NoCache
         /\ FieldIdentical(memo.invertedCallerFlamegraph[1].args, LastRender.flamegraphArgs)
         /\ memo.invertedCallerFlamegraph[1].result = LastRender.flamechart
         /\ LastRender.flamechart.val.forEachCall = LastRender.invertedCallerProfile.id
    /\ \A i \in 1..(Len(renderLog) - 2) :
         LET a1 == renderLog[i]
             b  == renderLog[i + 1]
             a2 == renderLog[i + 2]
         IN  /\ FieldIdentical(a1.profileArgs, a2.profileArgs)
                /\ ~FieldIdentical(a1.profileArgs, b.profileArgs)
                  => /\ b.profileInvoked
                     /\ a2.profileInvoked
                     /\ a2.invertedCallerProfile.id # a1.invertedCallerProfile.id
                     /\ i = 1 => a1.profileInvoked
             /\ FieldIdentical(a1.flamegraphArgs, a2.flamegraphArgs)
                /\ ~FieldIdentical(a1.flamegraphArgs, b.flamegraphArgs)
                  => /\ b.flamegraphInvoked
                     /\ a2.flamegraphInvoked
                     /\ a2.flamechart.id # a1.flamechart.id

\* C2's case: inputs A, B, A to getInvertedCallerProfile, B another frame or
\* another flattenRecursion.
C2_Witness ==
    /\ Len(renderLog) = 3
    /\ FieldIdentical(renderLog[1].profileArgs, renderLog[3].profileArgs)
    /\ ~FieldIdentical(renderLog[1].profileArgs, renderLog[2].profileArgs)
    /\ renderLog[3].profileInvoked

\* C5: a render of the inverted-caller view (a step that leaves the store and
\* the table alone) without a profile, a GL canvas or a callerCallee throws the
\* error of the first one missing, and runs no derivation: no slot changes, no
\* object is constructed, no flamechart is handed on.
C5_MissingContextThrows ==
    [][(MissingContext # "none" /\ UNCHANGED storeVars /\ tableView' = tableView)
         => /\ invertedView'.status = MissingContext
            /\ invertedView'.flamechart = <<>>
            /\ UNCHANGED <<memo, nextId, renderLog>>]_vars

\* C5's case: the view threw after it had rendered, its slots filled.
C5_Witness ==
    /\ invertedView.status \in {"profile missing", "glCanvas missing", "callerCallee missing"}
    /\ invertedView.status = MissingContext
    /\ renderLog # <<>>
    /\ memo.invertedCallerFlamegraph # NoCache

\* The bucket getColorBucketForFrame answers for a key: the map's, or 0.
BucketIn(map, k) == IF k \in DOMAIN map THEN map[k] ELSE 0

\* C7: when the table and the inverted-caller view have rendered the same
\* profile, every frame of it, and so every frame of the flamegraph, has the
\* same color bucket in both, whether recursion is flattened or not.
C7_ColorStability ==
    (/\ tableView.status = "ok"
     /\ renderLog # <<>>
     /\ memo.frameToColorBucket # NoCache
     /\ profile # <<>>
     /\ LastRender.profile.id = profile[1].id
     /\ memo.frameToColorBucket[1].args.id = profile[1].id
     /\ tableView.frameToColorBucket[1].id = memo.frameToColorBucket[1].result.id)
    => LET table    == tableView.frameToColorBucket[1].val
           inverted == LastRender.frameToColorBucket.val
       IN  /\ DOMAIN table = DOMAIN inverted
           /\ \A k \in DOMAIN table : table[k] = inverted[k]
           /\ \A k \in Range(LastRender.invertedCallerProfile.val.frames) :
                BucketIn(inverted, k) = BucketIn(table, k)

\* C7's case: both views rendered the profile with recursion flattened, the
\* flamegraph holding a caller of the selected frame.
C7_Witness ==
    /\ tableView.status = "ok"
    /\ renderLog # <<>>
    /\ profile # <<>>
    /\ LastRender.profile.id = profile[1].id
    /\ LastRender.flattenRecursion
    /\ memo.frameToColorBucket # NoCache
    /\ memo.frameToColorBucket[1].args.id = profile[1].id
    /\ tableView.frameToColorBucket[1].id = memo.frameToColorBucket[1].result.id
    /\ Len(LastRender.invertedCallerProfile.val.frames) >= 2

\* C8: of two consecutive renders of the inverted-caller view with the same
\* profile, selected frame and flattenRecursion, the second derives no inverted
\* profile, constructs no Flamechart and receives the first's Flamechart.
C8_FlamechartBuiltOnce ==
    \A i \in 1..(Len(renderLog) - 1) :
        LET a == renderLog[i]
            b == renderLog[i + 1]
        IN  (/\ a.profile.id = b.profile.id
             /\ a.frame.id = b.frame.id
             /\ a.flattenRecursion = b.flattenRecursion)
            => /\ ~b.profileInvoked
               /\ ~b.flamegraphInvoked
               /\ b.flamechart.id = a.flamechart.id

\* The key the table sorts a frame by.
SortKey(p, field, k) ==
    CASE field = "SYMBOL_NAME" -> toLowerCase(FrameName(k))
      [] field = "SELF"        -> p.selfWeight[k]
      [] field = "TOTAL"       -> p.totalWeight[k]

\* a's key is before b's.
SortKeyLess(p, field, a, b) ==
    IF field = "SYMBOL_NAME"
    THEN StringLess(SortKey(p, field, a), SortKey(p, field, b))
    ELSE SortKey(p, field, a) < SortKey(p, field, b)

\* C3: the table's frame list holds every frame forEachFrame enumerates exactly
\* once, its keys never increase when the direction is DESCENDING and never
\* decrease when it is ASCENDING, and after a click on the active field's header
\* (a toggle of the direction) it is the reverse of the list before the click.
C3_FrameListSorted ==
    tableView.status = "ok" =>
        LET p    == profile[1].val
            list == tableView.frameList
            m    == tableView.sortMethod
        IN  /\ Len(list) = Len(forEachFrame(p))
            /\ Range(list) = Range(forEachFrame(p))
            /\ \A i, j \in 1..Len(list) : i # j => list[i] # list[j]
            /\ \A i, j \in 1..Len(list) :
                 i < j => IF m.direction = "DESCENDING"
                          THEN ~SortKeyLess(p, m.field, list[i], list[j])
                          ELSE ~SortKeyLess(p, m.field, list[j], list[i])
            /\ clickLog # <<>> =>
                 LET click == clickLog[Len(clickLog)]
                 IN  click.field = click.sortMethod.field
                       => list = Reverse(click.frameList)

\* C3's case: three frames, two of them tied on the key, listed in descending
\* order after a toggle from ascending.
C3_Witness ==
    /\ tableView.status = "ok"
    /\ clickLog # <<>>
    /\ clickLog[Len(clickLog)].field = clickLog[Len(clickLog)].sortMethod.field
    /\ tableView.sortMethod = [field |-> "SELF", direction |-> "DESCENDING"]
    /\ Len(tableView.frameList) = 3
    /\ LET p == profile[1].val
           l == tableView.frameList
       IN  /\ p.selfWeight[l[1]] > p.selfWeight[l[2]]
           /\ p.selfWeight[l[2]] = p.selfWeight[l[3]]

\* A percentage that is 0: a finite quotient with numerator 0.
ZeroPercent(perc) == perc.kind = "finite" /\ perc.num = 0

\* C4: when the profile's total non-idle weight is 0, every row of the table
\* shows 0% for the total and for the self weight.
C4_ZeroWeightIsZeroPercent ==
    (tableView.status = "ok" /\ getTotalNonIdleWeight(profile[1].val) = 0)
    => \A i \in 1..Len(tableView.rows) :
         /\ ZeroPercent(tableView.rows[i].totalHBar)
         /\ ZeroPercent(tableView.rows[i].selfHBar)

\* How many times frame k is on the stack.
Occurrences(stack, k) == Cardinality({i \in 1..Len(stack) : stack[i] = k})

\* The weight of the enclosing stack, summed over the occurrences of k in p.
OccurrenceWeight(p, k) ==
    SumSeq([i \in 1..Len(p.samples) |->
              p.samples[i].weight * Occurrences(p.samples[i].stack, k)])

\* C6: the profile the inverted-caller view lays out has, as the total weight of
\* its roots, the weight of the enclosing stack summed over the occurrences of the
\* selected frame in the profile that is inverted: the store's profile, or its
\* recursion-flattened form when flattenRecursion is on; and every root is the
\* selected frame.
C6_InversionConservesWeight ==
    \A i \in 1..Len(renderLog) :
        LET e      == renderLog[i]
            source == IF e.flattenRecursion
                      THEN ProfileWithRecursionFlattened(e.profile.val)
                      ELSE e.profile.val
            laid   == e.invertedCallerProfile.val
        IN  /\ e.profileArgs.profile.val = source
            /\ RootTotalWeight(laid) = OccurrenceWeight(source, e.frame.val)
            /\ \A j \in 1..Len(laid.samples) : laid.samples[j].stack[1] = e.frame.val

\* C6's case: the selected frame recurses in one stack and is in another, with
\* recursion not flattened.
C6_Witness ==
    /\ renderLog # <<>>
    /\ ~LastRender.flattenRecursion
    /\ \E i \in 1..Len(LastRender.profile.val.samples) :
         Occurrences(LastRender.profile.val.samples[i].stack, LastRender.frame.val) = 2
    /\ RootTotalWeight(LastRender.invertedCallerProfile.val) >= 3

\* No frame is twice on a stack of p.
NoRecursion(p) ==
    \A i \in 1..Len(p.samples) :
        \A a, b \in 1..Len(p.samples[i].stack) :
            a # b => p.samples[i].stack[a] # p.samples[i].stack[b]

DefaultDirection(field) == IF field = "SYMBOL_NAME" THEN "ASCENDING" ELSE "DESCENDING"

OtherDirection(d) == IF d = "ASCENDING" THEN "DESCENDING" ELSE "ASCENDING"

\* C10: every click hands setSortMethod exactly one sort method, of the clicked
\* field: the active one with its direction flipped when the field was active,
\* the field's default direction otherwise; the store then holds it; a click
\* works on what the click before stored; and two clicks in a row on the header
\* of the active field restore the sort method.
C10_SortClicks ==
    /\ \A i \in 1..Len(clickLog) :
         LET c == clickLog[i]
         IN  /\ Len(c.setSortMethod) = 1
             /\ c.setSortMethod[1].field = c.field
             /\ c.setSortMethod[1].direction =
                  IF c.sortMethod.field = c.field
                  THEN OtherDirection(c.sortMethod.direction)
                  ELSE DefaultDirection(c.field)
    /\ clickLog # <<>> =>
         /\ tableSortMethod = clickLog[Len(clickLog)].setSortMethod[1]
         /\ tableSortMethod.field = clickLog[Len(clickLog)].field
         /\ tableView.sortMethod = tableSortMethod
    /\ Len(clickLog) = 2 =>
         /\ clickLog[2].sortMethod = clickLog[1].setSortMethod[1]
         /\ (clickLog[1].field = clickLog[2].field
             /\ clickLog[1].sortMethod.field = clickLog[1].field)
              => tableSortMethod = clickLog[1].sortMethod

\* C10's case: two clicks in a row on the header of the active field.
C10_Witness ==
    /\ Len(clickLog) = 2
    /\ clickLog[1].field = "SYMBOL_NAME"
    /\ clickLog[2].field = "SYMBOL_NAME"
    /\ clickLog[1].sortMethod = [field |-> "SYMBOL_NAME", direction |-> "DESCENDING"]
    /\ tableSortMethod = clickLog[1].sortMethod
====
